---- MODULE Spec2Model ----
(***************************************************************************)
(* A model of procout (src/src/lib.rs): one function, procout, that writes *)
(* the output of a procedural macro to <dir>/<snake_case(ident)>.rs,       *)
(* optionally prints a notification and optionally runs rustfmt on it.     *)
(*                                                                         *)
(* Text is modelled as sequences of strings: an identifier or a file name  *)
(* is a sequence of characters (the extension ".rs" counts as one), a path *)
(* is a sequence of names (an absolute path starts with the name "/"), and *)
(* the content of a file is a sequence of tokens.  Option<T> is a sequence *)
(* of length at most one: <<>> is None and <<x>> is Some(x).               *)
(***************************************************************************)
EXTENDS Integers, Sequences, FiniteSets, TLC

VARIABLES
  features,      \* the cargo features the crate was built with
  dirs,          \* filesystem: the absolute paths that are directories
  files,         \* filesystem: absolute path -> content of the regular file
  stdout,        \* the lines printed to standard output so far
  spawned,       \* the argv of every formatter process launched so far
  pc,            \* the position of the current call of procout
  panicked,      \* the message of the expect() that aborted the call, or ""
  code_block,    \* argument of the current call
  module_ident,  \* argument of the current call, Option<Ident>
  output_path,   \* argument of the current call, Option<&str>
  target_path,   \* local: the PathBuf being built
  ident,         \* local: the module Ident after unwrap_or_else
  now,           \* local: the time Utc::now() returned, Option
  text,          \* local: the rendered quote! block
  calls,         \* number of calls of procout made so far
  trace,         \* history: the steps the current call has run, in order
  pre            \* history: filesystem and output when the current call began

vars == <<features, dirs, files, stdout, spawned, pc, panicked, code_block,
          module_ident, output_path, target_path, ident, now, text, calls,
          trace, pre>>

\* The number of calls of procout in one behaviour.
MaxCalls == 2

None == <<>>
Some(x) == <<x>>

-----------------------------------------------------------------------------
(* Characters *)

LowerChars == {"a", "b", "o", "u", "t"}
UpperChars == {"A", "B"}
DigitChars == {"0", "1", "2", "3", "4", "5", "6", "7", "8", "9"}

\* char::is_uppercase / char::is_lowercase / char::is_alphanumeric
IsUpper(c) == c \in UpperChars
IsLower(c) == c \in LowerChars
IsAlnum(c) == c \in LowerChars \cup UpperChars \cup DigitChars

\* char::to_lowercase
ToLower(c) == IF c = "A" THEN "a" ELSE IF c = "B" THEN "b" ELSE c

-----------------------------------------------------------------------------
(* inflector::cases::snakecase::to_snake_case, as called on line 154 *)

\* trim_right: the string without its trailing non-alphanumeric characters
RECURSIVE TrimRight(_)
TrimRight(s) ==
  IF s = <<>> \/ IsAlnum(s[Len(s)]) THEN s
  ELSE TrimRight(SubSeq(s, 1, Len(s) - 1))

\* chars().nth(i).unwrap_or('A').is_lowercase(), with 1-based i
NthIsLower(s, i) == i >= 1 /\ i <= Len(s) /\ IsLower(s[i])

\* requires_seperator: an uppercase letter, not the first of a word, that
\* has a lowercase neighbour
RequiresSeparator(s, i, first) ==
  ~first /\ IsUpper(s[i]) /\ (NthIsLower(s, i + 1) \/ NthIsLower(s, i - 1))

RECURSIVE SnakeFrom(_, _, _, _, _)
SnakeFrom(s, n, i, first, acc) ==
  IF i > n THEN acc
  ELSE IF ~IsAlnum(s[i])
       THEN IF first THEN SnakeFrom(s, n, i + 1, TRUE, acc)
            ELSE SnakeFrom(s, n, i + 1, TRUE, Append(acc, "_"))
       ELSE IF RequiresSeparator(s, i, first)
            THEN SnakeFrom(s, n, i + 1, FALSE, acc \o <<"_", ToLower(s[i])>>)
            ELSE SnakeFrom(s, n, i + 1, FALSE, Append(acc, ToLower(s[i])))

to_snake_case(s) == SnakeFrom(s, Len(TrimRight(s)), 1, TRUE, <<>>)

-----------------------------------------------------------------------------
(* chrono: DateTime<Utc>::format, for the specifiers of TIMESTAMP_FORMAT *)

\* A format with the minute field: "out_%Y_%m%d_%H%M%S"
TIMESTAMP_FORMAT_WithMinute ==
  <<"o", "u", "t", "_", "%", "Y", "_", "%", "m", "%", "d", "_",
    "%", "H", "%", "M", "%", "S">>

\* The format used for default timestamped file names: "out_%Y_%m%d_%H%S"
TIMESTAMP_FORMAT ==
  <<"o", "u", "t", "_", "%", "Y", "_", "%", "m", "%", "d", "_",
    "%", "H", "%", "S">>

DigitChar(d) == <<"0", "1", "2", "3", "4", "5", "6", "7", "8", "9">>[d + 1]

\* n in decimal, zero-padded to 2 and to 4 digits
Pad2(n) == <<DigitChar((n \div 10) % 10), DigitChar(n % 10)>>
Pad4(n) == Pad2(n \div 100) \o Pad2(n % 100)

\* The text one strftime specifier stands for
Specifier(c, t) ==
  CASE c = "Y" -> Pad4(t.year)
    [] c = "m" -> Pad2(t.month)
    [] c = "d" -> Pad2(t.day)
    [] c = "H" -> Pad2(t.hour)
    [] c = "M" -> Pad2(t.minute)
    [] c = "S" -> Pad2(t.second)
    [] OTHER -> <<"%", c>>

RECURSIVE FormatFrom(_, _, _)
FormatFrom(fmt, i, t) ==
  IF i > Len(fmt) THEN <<>>
  ELSE IF fmt[i] = "%" /\ i < Len(fmt)
       THEN Specifier(fmt[i + 1], t) \o FormatFrom(fmt, i + 2, t)
       ELSE <<fmt[i]>> \o FormatFrom(fmt, i + 1, t)

\* now.format(&TIMESTAMP_FORMAT)
FormatTime(t) == FormatFrom(TIMESTAMP_FORMAT, 1, t)

-----------------------------------------------------------------------------
(* Paths and the filesystem *)

\* env::current_dir(), when it can be read
Root == <<"/">>
Cwd == <<Root, <<"w">>>>

\* The path the operating system resolves p to
AbsPath(p) == IF p # <<>> /\ p[1] = Root THEN p ELSE Cwd \o p

\* p and every directory above it
Ancestors(p) == {SubSeq(p, 1, k) : k \in 1..Len(p)}

\* The default directory: the working directory's tests subfolder
DefaultDir(cwd) == Append(cwd, <<"t", "e", "s", "t", "s">>)

\* The file name without the conversion to snake case
FileName_Raw(id) == id \o <<".rs">>

\* format!("{}.rs", to_snake_case(&module_ident.to_string()))
FileName(id) == to_snake_case(id) \o <<".rs">>

\* PathBuf::push of a relative component
Push(path, name) == Append(path, name)

\* The same filesystem with the file at path p holding content c
WithFile(fs, p, c) ==
  [q \in DOMAIN fs \cup {p} |-> IF q = p THEN c ELSE fs[q]]

\* A file opened for writing without truncation
Truncate_Keep(old) == old

\* File::create opens for writing and truncates what was there
Truncate(old) == <<>>

\* write_all writes the whole buffer at the position of the open file
WriteAll(cur, buf) == cur \o buf

-----------------------------------------------------------------------------
(* The text written: the quote! block of lines 163-171 *)

\* An import of the snake case of the Ident
UseStatement_Snake(id) == <<"use">> \o to_snake_case(id) \o <<"::", "*", ";">>

\* use #module_ident::*;
UseStatement(id) == <<"use">> \o id \o <<"::", "*", ";">>

\* The block without its second directive
Render_NoDeadCode(cb, id) ==
  <<"#![allow(unused_imports)]">> \o cb
    \o <<"#[test]", "fn", "macro_test", "()", "{">> \o UseStatement(id) \o <<"}">>

\* The two directives, #code_block, and the test function macro_test
Render(cb, id) ==
  <<"#![allow(unused_imports)]", "#![allow(dead_code)]">> \o cb
    \o <<"#[test]", "fn", "macro_test", "()", "{">> \o UseStatement(id) \o <<"}">>

\* What rustfmt leaves in a file it formats: every token on a line of its own
Rustfmt(src) ==
  [i \in 1..(2 * Len(src)) |-> IF i % 2 = 1 THEN src[(i + 1) \div 2] ELSE "\n"]

-----------------------------------------------------------------------------
(* The inputs *)

AllFeatures == {"procout", "procout_messy", "notification", "formatted"}

CodeBlocks == { <<"k">>, <<"k", "l", "m">> }

\* aB and a_b: two module names with the same snake case
Idents == { <<"a", "B">>, <<"a", "_", "b">> }

\* "o/b" and "f/x", both relative to the working directory
OutputPaths == { << <<"o">>, <<"b">> >>, << <<"f">>, <<"x">> >> }

\* 2026-11-05 09:03:07 and 09:41:07: two times a minute field would tell apart
Times ==
  { [year |-> 2026, month |-> 11, day |-> 5, hour |-> 9, minute |-> m, second |-> 7] :
      m \in {3, 41} }

\* The filesystem before the first call: the working directory holds a
\* regular file named f, so no directory can be created below <cwd>/f
InitDirs == { <<Root>>, Cwd }
InitFiles == [q \in { Append(Cwd, <<"f">>) } |-> <<"old">>]

-----------------------------------------------------------------------------
(* procout, lines 121-187 *)

\* A body that is not under the feature gate
Enabled_NoGate == TRUE

\* cfg!(any(feature = "procout", feature = "procout_messy"))
Enabled == features \cap {"procout", "procout_messy"} # {}

\* cfg!(feature = "notification") and cfg!(feature = "formatted")
Notification == "notification" \in features
Formatted == "formatted" \in features

\* A result whose error is dropped
Expect_Ignore(ok, next) == next

\* Result::expect: go on with the value, or panic with the message
Expect(ok, next) == IF ok THEN next ELSE "Panicked"

\* The two optional steps in the other order
AfterWrite_FormatFirst ==
  IF Formatted THEN "Format" ELSE IF Notification THEN "Notify" ELSE "Returned"

\* Where control goes after the write and after the notification
AfterWrite ==
  IF Notification THEN "Notify" ELSE IF Formatted THEN "Format" ELSE "Returned"
AfterNotify == IF Formatted THEN "Format" ELSE "Returned"

\* A formatter whose failure is fatal
AfterFormat_Expect(outcome) == IF outcome = "ok" THEN "Returned" ELSE "Panicked"

\* Both arms of the match on the formatter's result print and fall through
AfterFormat(outcome) == "Returned"

\* The content of the file at p, empty when there is none
Content(fs, p) == IF p \in DOMAIN fs THEN fs[p] ELSE <<>>

\* The lines printed on lines 176, 182 and 183
NotifyLine(path) == [msg |-> "Wrote macro to", path |-> path, detail |-> ""]
StatusLine(outcome) ==
  [msg |-> "rustfmt status", path |-> <<>>,
   detail |-> IF outcome = "ok" THEN "exit status: 0" ELSE "exit status: 1"]
LaunchErrorLine(path) == [msg |-> "Could not rustfmt", path |-> path, detail |-> "NotFound"]

\* What Command::new("rustfmt").arg(path).output() can come to: the
\* formatter ran and rewrote the file, ran and exited with a failure
\* leaving the file alone, or could not be launched
FormatOutcomes == {"ok", "failed", "unlaunched"}

\* The lengths a failed write_all can leave written
PartialLens(buf) == {0, Len(buf) - 1}

Init ==
  /\ features \in SUBSET AllFeatures
  /\ dirs = InitDirs
  /\ files = InitFiles
  /\ stdout = <<>>
  /\ spawned = <<>>
  /\ pc = "Idle"
  /\ panicked = ""
  /\ code_block = <<>>
  /\ module_ident = None
  /\ output_path = None
  /\ target_path = <<>>
  /\ ident = <<>>
  /\ now = None
  /\ text = <<>>
  /\ calls = 0
  /\ trace = <<>>
  /\ pre = [dirs |-> InitDirs, files |-> InitFiles, stdout |-> <<>>, spawned |-> <<>>]

\* A caller calls procout(code_block, module_ident, output_path); with the
\* feature disabled the body is skipped and the call returns at once
Call(cb, mi, op) ==
  /\ pc \in {"Idle", "Returned", "Panicked"}
  /\ calls < MaxCalls
  /\ calls' = calls + 1
  /\ code_block' = cb
  /\ module_ident' = mi
  /\ output_path' = op
  /\ target_path' = <<>>
  /\ ident' = <<>>
  /\ now' = None
  /\ text' = <<>>
  /\ panicked' = ""
  /\ trace' = <<>>
  /\ pre' = [dirs |-> dirs, files |-> files, stdout |-> stdout, spawned |-> spawned]
  /\ pc' = IF Enabled THEN "SelectPath" ELSE "Returned"
  /\ UNCHANGED <<features, dirs, files, stdout, spawned>>

\* lines 128-137: select a target path
SelectTargetPath ==
  /\ pc = "SelectPath"
  /\ trace' = Append(trace, "Resolve")
  /\ IF output_path = None
     THEN \E ok \in BOOLEAN :
            /\ target_path' = IF ok THEN DefaultDir(Cwd) ELSE target_path
            /\ pc' = Expect(ok, "CreateDir")
            /\ panicked' = IF ok THEN "" ELSE "Must identify current dir"
     ELSE /\ target_path' = output_path[1]
          /\ pc' = "CreateDir"
          /\ panicked' = ""
  /\ UNCHANGED <<features, dirs, files, stdout, spawned, code_block, module_ident,
                 output_path, ident, now, text, calls, pre>>

\* lines 140-143: DirBuilder::new().recursive(true).create(target_path):
\* every missing directory of the path is created, top down; the creation
\* stops with an error at a component that is a regular file, or wherever
\* the operating system refuses
CreateDir ==
  /\ pc = "CreateDir"
  /\ trace' = Append(trace, "CreateDir")
  /\ LET abs == AbsPath(target_path) IN
       \/ /\ \A q \in Ancestors(abs) : q \notin DOMAIN files
          /\ dirs' = dirs \cup Ancestors(abs)
          /\ pc' = Expect(TRUE, "ParseIdent")
          /\ panicked' = ""
       \/ \E k \in 0..(Len(abs) - 1) :
            /\ \A q \in Ancestors(abs) : Len(q) <= k => q \notin DOMAIN files
            /\ dirs' = dirs \cup {q \in Ancestors(abs) : Len(q) <= k}
            /\ pc' = Expect(FALSE, "ParseIdent")
            /\ panicked' = "Creates macro output dir"
  /\ UNCHANGED <<features, files, stdout, spawned, code_block, module_ident,
                 output_path, target_path, ident, now, text, calls, pre>>

\* lines 146-156: parse the module Ident, pick a file name
ParseModuleIdent ==
  /\ pc = "ParseIdent"
  /\ trace' = Append(trace, "Name")
  /\ IF module_ident = None
     THEN \E t \in Times : now' = Some(t) /\ ident' = FormatTime(t)
     ELSE now' = None /\ ident' = module_ident[1]
  /\ target_path' = Push(target_path, FileName(ident'))
  /\ pc' = "CreateFile"
  /\ UNCHANGED <<features, dirs, files, stdout, spawned, panicked, code_block,
                 module_ident, output_path, text, calls, pre>>

\* lines 157-158: File::create(target_path)
CreateFile ==
  /\ pc = "CreateFile"
  /\ trace' = Append(trace, "Create")
  /\ LET abs == AbsPath(target_path) IN
     \E ok \in BOOLEAN :
       /\ ok => SubSeq(abs, 1, Len(abs) - 1) \in dirs /\ abs \notin dirs
       /\ files' = IF ok THEN WithFile(files, abs, Truncate(Content(files, abs)))
                         ELSE files
       /\ pc' = Expect(ok, "Render")
       /\ panicked' = IF ok THEN "" ELSE "Creates macro output file"
  /\ UNCHANGED <<features, dirs, stdout, spawned, code_block, module_ident,
                 output_path, target_path, ident, now, text, calls, pre>>

\* lines 161-172: the argument of write_all, format!("{}", quote!{...})
RenderText ==
  /\ pc = "Render"
  /\ trace' = Append(trace, "Render")
  /\ text' = Render(code_block, ident)
  /\ pc' = "Write"
  /\ UNCHANGED <<features, dirs, files, stdout, spawned, panicked, code_block,
                 module_ident, output_path, target_path, ident, now, calls, pre>>

\* lines 161-173: target_file.write_all(...)
WriteFile ==
  /\ pc = "Write"
  /\ trace' = Append(trace, "Write")
  /\ LET abs == AbsPath(target_path) IN
       \/ /\ files' = WithFile(files, abs, WriteAll(Content(files, abs), text))
          /\ pc' = Expect(TRUE, AfterWrite)
          /\ panicked' = ""
       \/ \E k \in PartialLens(text) :
            /\ files' = WithFile(files, abs,
                                 WriteAll(Content(files, abs), SubSeq(text, 1, k)))
            /\ pc' = Expect(FALSE, AfterWrite)
            /\ panicked' = "Writes macro to file as test"
  /\ UNCHANGED <<features, dirs, stdout, spawned, code_block, module_ident,
                 output_path, target_path, ident, now, text, calls, pre>>

\* lines 175-177: the notification
Notify ==
  /\ pc = "Notify"
  /\ trace' = Append(trace, "Notify")
  /\ stdout' = Append(stdout, NotifyLine(target_path))
  /\ pc' = AfterNotify
  /\ UNCHANGED <<features, dirs, files, spawned, panicked, code_block, module_ident,
                 output_path, target_path, ident, now, text, calls, pre>>

\* lines 179-185: try to rustfmt the output
Format ==
  /\ pc = "Format"
  /\ trace' = Append(trace, "Reformat")
  /\ LET abs == AbsPath(target_path) IN
     \E outcome \in FormatOutcomes :
       /\ spawned' = IF outcome = "unlaunched" THEN spawned
                     ELSE Append(spawned, [program |-> "rustfmt", arg |-> target_path])
       /\ files' = IF outcome = "ok" /\ abs \in DOMAIN files
                   THEN WithFile(files, abs, Rustfmt(files[abs]))
                   ELSE files
       /\ stdout' = Append(stdout, IF outcome = "unlaunched"
                                   THEN LaunchErrorLine(target_path)
                                   ELSE StatusLine(outcome))
       /\ pc' = AfterFormat(outcome)
  /\ UNCHANGED <<features, dirs, panicked, code_block, module_ident,
                 output_path, target_path, ident, now, text, calls, pre>>

Next ==
  \/ \E cb \in CodeBlocks, mi \in {None} \cup {Some(i) : i \in Idents},
        op \in {None} \cup {Some(p) : p \in OutputPaths} : Call(cb, mi, op)
  \/ SelectTargetPath
  \/ CreateDir
  \/ ParseModuleIdent
  \/ CreateFile
  \/ RenderText
  \/ WriteFile
  \/ Notify
  \/ Format

Spec == Init /\ [][Next]_vars

-----------------------------------------------------------------------------
(* What the properties below speak of *)

Last(s) == s[Len(s)]
IsPrefix(a, b) == Len(a) <= Len(b) /\ SubSeq(b, 1, Len(a)) = a

\* The current call has run this step
Ran(step) == \E i \in 1..Len(trace) : trace[i] = step

\* The master toggle, read off the features
MasterOn == "procout" \in features \/ "procout_messy" \in features

\* An enabled call has returned normally
Completed == MasterOn /\ calls > 0 /\ pc = "Returned"

\* The module name of the current call: the one given, or the default
ModuleName == IF module_ident = None THEN ident ELSE module_ident[1]

\* The directory the current call is to write to
ExpectedDir ==
  IF output_path = None THEN <<<<"/">>, <<"w">>, <<"t", "e", "s", "t", "s">>>>
  ELSE output_path[1]

\* <resolvedDir>/<snake_case(moduleName)>.rs, as the filesystem sees it
ExpectedFile == AbsPath(Append(ExpectedDir, to_snake_case(ModuleName) \o <<".rs">>))

TargetFile == AbsPath(target_path)

\* The two directives, the code block, the test function importing name
TextImporting(name) ==
  <<"#![allow(unused_imports)]", "#![allow(dead_code)]">>
    \o code_block
    \o <<"#[test]", "fn", "macro_test", "()", "{", "use">> \o name
    \o <<"::", "*", ";", "}">>

\* The file has been written and the formatter has not been started
WrittenUnformatted ==
  pc # "Panicked" /\ trace # <<>> /\ Last(trace) \in {"Write", "Notify"}

\* The formatter step of the current call ran, and how it ended
FormatterSucceeded ==
  Ran("Reformat") /\ stdout # <<>> /\ Last(stdout).detail = "exit status: 0"
FormatterFailed ==
  Ran("Reformat") /\ stdout # <<>> /\ Last(stdout).detail \in {"exit status: 1", "NotFound"}

\* The paths whose file the current call has created, changed or removed
TouchedFiles ==
  {p \in DOMAIN pre.files \cup DOMAIN files :
     \/ p \notin DOMAIN files
     \/ p \notin DOMAIN pre.files
     \/ files[p] # pre.files[p]}

-----------------------------------------------------------------------------
\* C1: with neither procout nor procout_messy enabled, whatever is called
\* and whatever the other features are, the filesystem is the initial
\* one, nothing is printed, no formatter is launched and no call panics.
C1_DisabledIsNoOp ==
  ~MasterOn =>
    /\ dirs = InitDirs
    /\ files = InitFiles
    /\ stdout = <<>>
    /\ spawned = <<>>
    /\ pc \in {"Idle", "Returned"}
    /\ panicked = ""

\* A disabled build, both optional features on, has returned from a second
\* call whose output path cannot be created.
C1_Witness ==
  /\ ~MasterOn
  /\ {"notification", "formatted"} \subseteq features
  /\ calls = 2
  /\ pc = "Returned"
  /\ output_path = Some(<< <<"f">>, <<"x">> >>)

\* C2: from the end of the write until the formatter starts, the file of
\* the call holds exactly the unused-imports directive, the dead-code
\* directive, the code block as given and the test function importing
\* the module name, in this order and nothing else.
C2_WrittenContent ==
  WrittenUnformatted =>
    /\ TargetFile \in DOMAIN files
    /\ files[TargetFile] = TextImporting(ModuleName)

\* The three-token code block has been written for module aB and the
\* formatter is about to run.
C2_Witness ==
  /\ WrittenUnformatted
  /\ pc = "Format"
  /\ code_block = <<"k", "l", "m">>
  /\ module_ident = Some(<<"a", "B">>)
  /\ files[TargetFile] =
       <<"#![allow(unused_imports)]", "#![allow(dead_code)]", "k", "l", "m",
         "#[test]", "fn", "macro_test", "()", "{", "use", "a", "B", "::", "*", ";", "}">>

\* C3: a call touches no file but <resolvedDir>/<snake_case(moduleName)>.rs,
\* and only once resolvedDir and the directories above it exist; it adds no
\* directory but those and removes none; when an enabled call has completed
\* that file exists.
C3_OneFileAtTarget ==
  /\ TouchedFiles # {} =>
       /\ Ran("Create")
       /\ TouchedFiles = {ExpectedFile}
       /\ Ancestors(AbsPath(ExpectedDir)) \subseteq dirs
  /\ dirs \ pre.dirs \subseteq Ancestors(AbsPath(ExpectedDir))
  /\ pre.dirs \subseteq dirs
  /\ Completed =>
       /\ ExpectedFile \in DOMAIN files
       /\ Ancestors(AbsPath(ExpectedDir)) \subseteq dirs

\* A second call has completed for module aB in o/b, which the first call
\* had already created for its timestamped file: a_b.rs is new beside it.
C3_Witness ==
  /\ Completed
  /\ calls = 2
  /\ output_path = Some(<< <<"o">>, <<"b">> >>)
  /\ module_ident = Some(<<"a", "B">>)
  /\ <<Root, <<"w">>, <<"o">>, <<"b">>>> \in pre.dirs
  /\ TouchedFiles = {<<Root, <<"w">>, <<"o">>, <<"b">>, <<"a", "_", "b", ".rs">>>>}
  /\ Cardinality(DOMAIN files) = 3

\* C4 as stated: once an enabled call has completed, the file at its
\* target holds the rendering of that call.
C4_ContentIsRendering ==
  Completed =>
    /\ TargetFile \in DOMAIN files
    /\ files[TargetFile] = TextImporting(ModuleName)

\* C4 as amended: once an enabled call has completed, the file at its
\* target holds the rendering of that call, or what the formatter made of
\* that rendering when the formatter ran with success; nothing of the
\* earlier content is left and no other file appeared or changed.
C4_Overwrite ==
  Completed =>
    /\ TargetFile \in DOMAIN files
    /\ files[TargetFile] =
         IF FormatterSucceeded THEN Rustfmt(TextImporting(ModuleName))
         ELSE TextImporting(ModuleName)
    /\ TouchedFiles \subseteq {TargetFile}

\* Without the formatter, a second call has completed on a file that held
\* the longer text of the three-token code block: the shorter text of the
\* one-token code block is all that is left.
C4_Witness ==
  /\ Completed
  /\ calls = 2
  /\ "formatted" \notin features
  /\ code_block = <<"k">>
  /\ TargetFile \in DOMAIN pre.files
  /\ Len(pre.files[TargetFile]) = Len(files[TargetFile]) + 2
  /\ pre.files[TargetFile][5] = "m"
  /\ files[TargetFile] = TextImporting(ModuleName)

\* C5: the formatter step never ends the call in a panic, and when the
\* formatter exited with a failure or could not be launched the call has
\* returned and the file holds exactly the text written before.
C5_FormatterFailureKeepsFile ==
  (trace # <<>> /\ Last(trace) = "Reformat") =>
    /\ pc = "Returned"
    /\ panicked = ""
    /\ FormatterFailed =>
         /\ TargetFile \in DOMAIN files
         /\ files[TargetFile] = TextImporting(ModuleName)

\* The formatter was launched, exited with a failure, and the call returned.
C5_Witness ==
  /\ Completed
  /\ FormatterFailed
  /\ Last(stdout).detail = "exit status: 1"
  /\ Len(spawned) = Len(pre.spawned) + 1
  /\ files[TargetFile] = TextImporting(ModuleName)

\* C6: a failure of current_dir, of the directory creation, of File::create
\* or of write_all ends the call in a panic at that step: the steps run are
\* those up to the failing one, each once, nothing is printed and no
\* formatter is launched, no file is touched before File::create succeeded,
\* and the directories created so far stay.
C6_FatalErrorsAbort ==
  /\ panicked # "" => pc = "Panicked"
  /\ pc = "Panicked" =>
       /\ panicked # ""
       /\ stdout = pre.stdout
       /\ spawned = pre.spawned
       /\ pre.dirs \subseteq dirs
  /\ panicked = "Must identify current dir" =>
       /\ trace = <<"Resolve">>
       /\ dirs = pre.dirs
       /\ files = pre.files
  /\ panicked = "Creates macro output dir" =>
       /\ trace = <<"Resolve", "CreateDir">>
       /\ files = pre.files
  /\ panicked = "Creates macro output file" =>
       /\ trace = <<"Resolve", "CreateDir", "Name", "Create">>
       /\ files = pre.files
       /\ Ancestors(AbsPath(ExpectedDir)) \subseteq dirs
  /\ panicked = "Writes macro to file as test" =>
       /\ trace = <<"Resolve", "CreateDir", "Name", "Create", "Render", "Write">>
       /\ Ancestors(AbsPath(ExpectedDir)) \subseteq dirs
       /\ TargetFile \in DOMAIN files
       /\ Len(files[TargetFile]) < Len(text)
       /\ TouchedFiles \subseteq {TargetFile}

\* File::create failed after the call had created <cwd>/o/b: the directory
\* is there, no file is.
C6_Witness ==
  /\ pc = "Panicked"
  /\ panicked = "Creates macro output file"
  /\ output_path = Some(<< <<"o">>, <<"b">> >>)
  /\ <<Root, <<"w">>, <<"o">>, <<"b">>>> \notin pre.dirs
  /\ <<Root, <<"w">>, <<"o">>, <<"b">>>> \in dirs
  /\ TargetFile \notin DOMAIN files

\* The directory part of target_path
TargetDir ==
  IF Ran("Name") THEN SubSeq(target_path, 1, Len(target_path) - 1) ELSE target_path

\* C7: once the target path is selected it is <cwd>/tests when no output
\* path was given and the given path itself otherwise, for which the
\* working directory is not read; once the module Ident is parsed it is the
\* given one, or out_<year>_<month><day>_<hour><second> of the time read.
C7_Defaults ==
  /\ (Ran("Resolve") /\ panicked # "Must identify current dir") => TargetDir = ExpectedDir
  /\ panicked = "Must identify current dir" => output_path = None
  /\ Ran("Name") =>
       IF module_ident = None
       THEN /\ now # None
            /\ ident = <<"o", "u", "t", "_">> \o Pad4(now[1].year) \o <<"_">>
                         \o Pad2(now[1].month) \o Pad2(now[1].day) \o <<"_">>
                         \o Pad2(now[1].hour) \o Pad2(now[1].second)
            /\ now[1].year = 2026 =>
                 ident = <<"o", "u", "t", "_", "2", "0", "2", "6", "_",
                           "1", "1", "0", "5", "_", "0", "9", "0", "7">>
       ELSE now = None /\ ident = module_ident[1]

\* A call with neither argument, at 09:41:07 on 2026-11-05, has picked
\* <cwd>/tests/out_2026_1105_0907.rs.
C7_Witness ==
  /\ Ran("Name")
  /\ module_ident = None
  /\ output_path = None
  /\ now # None
  /\ now[1].minute = 41
  /\ target_path = <<Root, <<"w">>, <<"t", "e", "s", "t", "s">>,
                     <<"o", "u", "t", "_", "2", "0", "2", "6", "_",
                       "1", "1", "0", "5", "_", "0", "9", "0", "7", ".rs">>>>

\* The name the written test function imports: the tokens between "use"
\* and "::"
ImportedName ==
  LET c == files[TargetFile]
  IN  SubSeq(c, Len(code_block) + 9, Len(c) - 4)

\* C8 as stated: the written file is named snake_case(moduleName).rs and
\* its test function imports snake_case(moduleName).
C8_ImportIsSnakeCase ==
  WrittenUnformatted =>
    /\ Last(target_path) = to_snake_case(ModuleName) \o <<".rs">>
    /\ ImportedName = to_snake_case(ModuleName)

\* C8 as amended: the written file is named snake_case(moduleName).rs and
\* its test function imports the module name as it is, not in snake case;
\* for module aB the file is a_b.rs and the import is aB.
C8_ImportIsIdent ==
  WrittenUnformatted =>
    /\ Last(target_path) = to_snake_case(ModuleName) \o <<".rs">>
    /\ ImportedName = ModuleName
    /\ module_ident = Some(<<"a", "B">>) =>
         /\ Last(target_path) = <<"a", "_", "b", ".rs">>
         /\ ImportedName = <<"a", "B">>

\* Module aB has been written to <cwd>/tests/a_b.rs.
C8_Witness ==
  /\ WrittenUnformatted
  /\ module_ident = Some(<<"a", "B">>)
  /\ output_path = None
  /\ TargetFile = <<Root, <<"w">>, <<"t", "e", "s", "t", "s">>, <<"a", "_", "b", ".rs">>>>
  /\ ImportedName # to_snake_case(ModuleName)

\* The steps of an enabled call, in order
AllSteps ==
  <<"Resolve", "CreateDir", "Name", "Create", "Render", "Write">>
    \o (IF "notification" \in features THEN <<"Notify">> ELSE <<>>)
    \o (IF "formatted" \in features THEN <<"Reformat">> ELSE <<>>)

\* C9: the steps a call has run are an initial part of Resolve, CreateDir,
\* (Name, Create,) Render, Write, Notify when enabled, Reformat when
\* enabled, and all of them once the call has completed; when the
\* notification is printed the file is completely written and the formatter
\* not launched, and the formatter is launched at most once, after the write.
C9_StepOrder ==
  /\ IsPrefix(trace, AllSteps)
  /\ Completed => trace = AllSteps
  /\ ~MasterOn => trace = <<>>
  /\ (trace # <<>> /\ Last(trace) = "Notify") =>
       /\ stdout = Append(pre.stdout,
                          [msg |-> "Wrote macro to", path |-> target_path, detail |-> ""])
       /\ spawned = pre.spawned
       /\ files[TargetFile] = TextImporting(ModuleName)
  /\ (stdout # pre.stdout \/ spawned # pre.spawned) => Ran("Write") /\ panicked = ""
  /\ Len(spawned) <= Len(pre.spawned) + 1
  /\ spawned # pre.spawned => Last(spawned).arg = target_path

\* With every feature on, a call has run all eight steps and returned.
C9_Witness ==
  /\ Completed
  /\ features = AllFeatures
  /\ trace = <<"Resolve", "CreateDir", "Name", "Create", "Render", "Write",
               "Notify", "Reformat">>
  /\ Len(stdout) = Len(pre.stdout) + 2
  /\ Len(spawned) = Len(pre.spawned) + 1

\* C10: in an enabled build without the notification feature nothing is
\* ever written to standard output.
C10_QuietWithoutNotification ==
  (MasterOn /\ "notification" \notin features) => stdout = <<>>

=============================================================================
